---- MODULE Spec2Model ----
(***************************************************************************)
(* SysMon (src/main.py): the self-rescheduling update loop of the Tk       *)
(* application, the runtime-mutable update interval, the process snapshot  *)
(* built by _update_procs, and the pure helper bytes2human.                *)
(*                                                                         *)
(* Tk runs every callback (timer callbacks, menu commands, key bindings)   *)
(* to completion on the single main-loop thread.  A tick is modelled step  *)
(* by step (pc) so that an exception can leave it half way; menu and key   *)
(* handlers are dispatched only while no callback is running (pc = idle).  *)
(* The model covers the life of the main loop up to WM_DELETE_WINDOW.      *)
(***************************************************************************)
EXTENDS Integers, Sequences, FiniteSets, TLC

VARIABLES
    pc,               \* position in _update_all, or "idle" (main loop waiting)
    after_queue,      \* delays (ms) of the pending self.after callbacks
    update_interval,  \* self.update_interval
    font_size,        \* self.font_size
    theme_mode,       \* self.theme_mode
    status,           \* which handler wrote the status bar last
    tick_error,       \* "Update error:" was printed for the current/last tick
    total_bar,        \* total CPU bar: "cur" (drawn by this tick) or "stale"
    core_bars,        \* per-core CPU bars
    mem_panel,        \* RAM / SWAP / Disk labels and bars
    tree_age,         \* process table: "cur", "stale", or "emptied" by this tick
    top_labels,       \* host / uptime / OS / CPU / GPU labels
    cpu_baseline,     \* caller that last read (and reset) psutil's total-CPU baseline
    total_window,     \* what the value drawn in the total bar was measured against
    total_reads,      \* reads of the total-CPU baseline made by the current tick
    procs,            \* the processes process_iter yields to _update_procs
    rows,             \* the local list rows of _update_procs
    tree,             \* the rows inserted in self.tree
    raised,           \* _update_procs left by an exception
    procs_done,       \* _update_procs has run on procs
    cmd_in,           \* a process whose command string is built
    cmd_out,          \* the command string put in its row
    cmd_done,
    bytes_in,         \* argument of bytes2human (base-1024 digits, lowest first)
    bytes_out,        \* its result
    bytes_done

sched_vars == <<pc, after_queue, update_interval, font_size, theme_mode, status,
                tick_error, total_bar, core_bars, mem_panel, tree_age, top_labels,
                cpu_baseline, total_window, total_reads>>
proc_vars == <<procs, rows, tree, raised, procs_done>>
cmd_vars == <<cmd_in, cmd_out, cmd_done>>
bytes_vars == <<bytes_in, bytes_out, bytes_done>>
vars == <<sched_vars, proc_vars, cmd_vars, bytes_vars>>

(***************************************************************************)
(* Program constants.                                                      *)
(***************************************************************************)
MinInterval == 250
MaxInterval == 10000
IntervalStep == 500
DefaultInterval == 1000
DefaultFontSize == 10
MinFontSize == 6
CmdLimit == 100
CmdKeep == 97
DisplayLimit == 80
Kilo == 1024

(***************************************************************************)
(* Bounds of the model.                                                    *)
(***************************************************************************)
MaxFont == 10
MaxProcs == 82
MaxCmdLen == 150

Min(a, b) == IF a < b THEN a ELSE b
Max(a, b) == IF a > b THEN a ELSE b

(***************************************************************************)
(* Command string of a row (lines 443-444).  Strings are sequences of      *)
(* one-character strings.                                                  *)
(***************************************************************************)
RECURSIVE JoinArgs(_)
JoinArgs(args) ==
    IF args = <<>> THEN <<>>
    ELSE IF Len(args) = 1 THEN args[1]
    ELSE args[1] \o <<" ">> \o JoinArgs(Tail(args))

Ellipsis == <<".", ".", ".">>

TruncateKeepLimit(cmd) ==
    IF Len(cmd) > CmdLimit THEN SubSeq(cmd, 1, CmdLimit) \o Ellipsis ELSE cmd

Truncate(cmd) ==
    IF Len(cmd) > CmdLimit THEN SubSeq(cmd, 1, CmdKeep) \o Ellipsis ELSE cmd

\* i["cmdline"] or [p.name()]: a None or empty cmdline falls back to the name
CmdArgs(p) == IF p.cmdline = <<>> THEN <<p.name>> ELSE p.cmdline

CmdOf(p) == Truncate(JoinArgs(CmdArgs(p)))

(***************************************************************************)
(* One row of the process table (lines 441-456).  A numeric attribute is   *)
(* <<v>>, or <<>> for the None that process_iter stores for a field whose  *)
(* read was denied.  CPU and memory percentages are in hundredths of a     *)
(* percent; the row carries them formatted to one decimal (tenths).        *)
(***************************************************************************)
\* f"{x:.1f}": x in hundredths -> tenths, to nearest (no measured value of the
\* model lies exactly half way between two tenths)
Fmt1(h) == (h + 5) \div 10

\* "skip": NoSuchProcess / AccessDenied raised by p.name() and caught;
\* "raise": formatting None (TypeError) or None.vms (AttributeError), not caught
RowOutcome(p) ==
    IF p.cmdline = <<>> /\ p.name_raises THEN "skip"
    ELSE IF p.cpu_percent = <<>> \/ p.memory_percent = <<>> \/ p.memory_info = <<>>
         THEN "raise"
         ELSE "row"

MakeRow(p) ==
    [pid |-> p.pid,
     cpu |-> Fmt1(p.cpu_percent[1]),
     mem |-> Fmt1(p.memory_percent[1]),
     cmd |-> CmdOf(p)]

\* the loop of lines 440-456: it ends at the first process whose row raises;
\* the processes before it leave a row each, unless skipped
Collect(ps) ==
    LET raising == {k \in 1..Len(ps) : RowOutcome(ps[k]) = "raise"}
        stop == IF raising = {} THEN Len(ps) + 1
                ELSE CHOOSE k \in raising : \A m \in raising : k <= m
        read == SelectSeq(SubSeq(ps, 1, stop - 1),
                          LAMBDA q : RowOutcome(q) = "row")
    IN [raised |-> raising # {}, rows |-> [k \in 1..Len(read) |-> MakeRow(read[k])]]

(***************************************************************************)
(* rows.sort(key=lambda r: float(r[2]), reverse=True): a stable sort on    *)
(* the formatted CPU value, highest first (line 457): the rows of the      *)
(* highest key in their order in rows, then those of the next key, ...     *)
(***************************************************************************)
RECURSIVE SortByKeys(_, _, _)
SortByKeys(rs, keys, descending) ==
    IF keys = {} THEN <<>>
    ELSE LET first == IF descending
                      THEN CHOOSE k \in keys : \A m \in keys : m <= k
                      ELSE CHOOSE k \in keys : \A m \in keys : k <= m
         IN SelectSeq(rs, LAMBDA r : r.cpu = first)
            \o SortByKeys(rs, keys \ {first}, descending)

\* a bug: reverse=True forgotten
SortRowsAscending(rs) == SortByKeys(rs, {rs[i].cpu : i \in 1..Len(rs)}, FALSE)

SortRows(rs) == SortByKeys(rs, {rs[i].cpu : i \in 1..Len(rs)}, TRUE)

\* rows[:80]
Shown(rs) == SubSeq(rs, 1, Min(DisplayLimit, Len(rs)))

\* _update_procs on the processes ps: the tree is emptied first (line 438);
\* an exception leaves it empty and the rows unsorted
UpdateProcsResult(ps) ==
    LET c == Collect(ps) IN
    IF c.raised
    THEN [raised |-> TRUE, rows |-> c.rows, tree |-> <<>>]
    ELSE LET s == SortRows(c.rows)
         IN [raised |-> FALSE, rows |-> s, tree |-> Shown(s)]

(***************************************************************************)
(* Processes the operating system may present.                            *)
(***************************************************************************)
CpuCycle == <<0, 6, 14, 26, 104>>

Healthy(k, h) ==
    [pid |-> k, cmdline |-> <<<<"s", "h">>, <<"-", "c">>>>, name |-> <<"s", "h">>,
     name_raises |-> FALSE, cpu_percent |-> <<h>>, memory_percent |-> <<12>>,
     memory_info |-> <<1>>]

ProcKinds == {"kernel", "vanished", "denied", "denied_cpu", "denied_mem"}

Special(k, kind) ==
    CASE kind = "kernel" ->      \* no command line, name readable
             [Healthy(k, 6) EXCEPT !.cmdline = <<>>, !.name = <<"k", "t">>]
      [] kind = "vanished" ->    \* gone after enumeration: p.name() raises NoSuchProcess
             [Healthy(k, 14) EXCEPT !.cmdline = <<>>, !.name_raises = TRUE]
      [] kind = "denied" ->      \* every read denied; p.name() raises AccessDenied
             [Healthy(k, 0) EXCEPT !.cmdline = <<>>, !.name_raises = TRUE,
                                   !.cpu_percent = <<>>, !.memory_percent = <<>>,
                                   !.memory_info = <<>>]
      [] kind = "denied_cpu" ->  \* cpu_percent denied, delivered as None
             [Healthy(k, 0) EXCEPT !.cpu_percent = <<>>]
      [] kind = "denied_mem" ->  \* memory_info denied, delivered as None
             [Healthy(k, 26) EXCEPT !.memory_info = <<>>]

\* n processes in enumeration order; process sp (if any) is of the given kind,
\* the others are healthy with CPU values running through CpuCycle
Population(n, a, b, sp, kind) ==
    [k \in 1..n |->
        IF k = sp THEN Special(k, kind)
        ELSE Healthy(k, CpuCycle[((a * k + b) % Len(CpuCycle)) + 1])]

PopSizes == {0, 1, 2, 3, DisplayLimit, DisplayLimit + 1, MaxProcs}

Populations ==
    {Population(n, a, b, sp, kind) :
        n \in PopSizes, a \in {0, 1}, b \in 0..(Len(CpuCycle) - 1),
        sp \in {0, 1, 2, DisplayLimit + 1}, kind \in ProcKinds}

(***************************************************************************)
(* _update_procs applied to a population (lines 437-462).                  *)
(***************************************************************************)
ProcsInit ==
    /\ procs \in Populations
    /\ rows = <<>>
    /\ tree = <<>>
    /\ raised = FALSE
    /\ procs_done = FALSE

RunUpdateProcs ==
    /\ ~procs_done
    /\ LET r == UpdateProcsResult(procs) IN
        /\ rows' = r.rows
        /\ tree' = r.tree
        /\ raised' = r.raised
    /\ procs_done' = TRUE
    /\ UNCHANGED procs

(***************************************************************************)
(* bytes2human (lines 45-50).  A byte count is a sequence of base-1024     *)
(* digits, lowest first (<<0>> is zero).  The running value n of the loop  *)
(* has an integer part ip (digits, lowest first) and, after divisions, a   *)
(* fraction fp (digits, highest first).  Dividing a double by 1024 is      *)
(* exact, so for counts below 2^53 the value formatted is n / 1024^k.      *)
(***************************************************************************)
Units == <<"B", "K", "M", "G", "T">>

RECURSIVE IntVal(_)
IntVal(ip) == IF ip = <<>> THEN 0 ELSE ip[1] + Kilo * IntVal(Tail(ip))

\* a bug: the comparison admits 1024 itself
AtMostKilo(v) == Len(v.ip) <= 1 \/ v.ip = <<0, 1>>

\* n < 1024
LessThanKilo(v) == Len(v.ip) <= 1

\* n /= 1024
DivKilo(v) ==
    [ip |-> IF Len(v.ip) > 1 THEN Tail(v.ip) ELSE <<0>>,
     fp |-> <<v.ip[1]>> \o v.fp]

\* 10 * 0.fp: the digit that moves in front of the point, and the rest
RECURSIVE TimesTen(_)
TimesTen(fp) ==
    IF fp = <<>> THEN [carry |-> 0, rem |-> <<>>]
    ELSE LET lower == TimesTen(Tail(fp))
             t == 10 * fp[1] + lower.carry
         IN [carry |-> t \div Kilo, rem |-> <<t % Kilo>> \o lower.rem]

\* 0.rem against one half
HalfCmp(rem) ==
    IF rem = <<>> THEN "below"
    ELSE IF 2 * rem[1] > Kilo THEN "above"
    ELSE IF 2 * rem[1] < Kilo THEN "below"
    ELSE IF \E i \in 2..Len(rem) : rem[i] # 0 THEN "above"
    ELSE "tie"

\* f"{n:.1f}{u}": one decimal, correctly rounded, ties to the even digit
Format(v, u) ==
    LET m == TimesTen(v.fp)
        t == 10 * IntVal(v.ip) + m.carry
        c == HalfCmp(m.rem)
        r == IF c = "above" \/ (c = "tie" /\ t % 2 = 1) THEN t + 1 ELSE t
    IN [whole |-> r \div 10, tenth |-> r % 10, unit |-> u]

RECURSIVE Bytes2HumanFrom(_, _)
Bytes2HumanFrom(v, k) ==
    IF k > Len(Units) THEN Format(v, "P")
    ELSE IF LessThanKilo(v) THEN Format(v, Units[k])
    ELSE Bytes2HumanFrom(DivKilo(v), k + 1)

Bytes2Human(n) == Bytes2HumanFrom([ip |-> n, fp |-> <<>>], 1)

\* byte counts: one to six digits drawn from DigitSamples, below 2^53, and two
\* counts given in full
DigitSamples == {0, 1, 256, 768, 1023}

FourBillion == <<0, 714, 742, 3>>

ThreeExbi == <<0, 0, 0, 0, 0, 0, 3>>

ByteCounts ==
    {<<0>>, FourBillion, ThreeExbi}
    \cup {d \in UNION {[1..len -> DigitSamples] : len \in 1..(Len(Units) + 1)} :
            /\ d[Len(d)] # 0
            /\ Len(d) = Len(Units) + 1 => d[Len(d)] = 1}

BytesInit == bytes_in \in ByteCounts /\ bytes_out = <<>> /\ bytes_done = FALSE

RunBytes2Human ==
    /\ ~bytes_done
    /\ bytes_out' = Bytes2Human(bytes_in)
    /\ bytes_done' = TRUE
    /\ UNCHANGED bytes_in

(***************************************************************************)
(* The command string of one process (lines 443-444).                      *)
(***************************************************************************)
Alphabet == <<"a", ".", "/", "-", " ", "x", "y">>

Str(n, off) == [k \in 1..n |-> Alphabet[((k + off) % Len(Alphabet)) + 1]]

CmdInputs ==
    {[cmdline |-> <<Str(n, off)>>, name |-> Str(3, off)] :
        n \in 0..MaxCmdLen, off \in {0, 1}}
    \cup {[cmdline |-> <<Str(n, off), Str(2, off)>>, name |-> Str(3, off)] :
        n \in 0..(MaxCmdLen - 3), off \in {0, 1}}
    \cup {[cmdline |-> <<>>, name |-> Str(n, off)] :
        n \in {1, 15, CmdKeep, CmdLimit, CmdLimit + 1}, off \in {0, 1}}

CmdInit == cmd_in \in CmdInputs /\ cmd_out = <<>> /\ cmd_done = FALSE

BuildCmd ==
    /\ ~cmd_done
    /\ cmd_out' = CmdOf(cmd_in)
    /\ cmd_done' = TRUE
    /\ UNCHANGED cmd_in

(***************************************************************************)
(* The update loop and the handlers (class SysMon).                        *)
(***************************************************************************)
\* update_interval_ms values the configuration file may hold: load_settings
\* returns the integer it reads, or 1000 when the file has none
StartupIntervals == {0, DefaultInterval, 1500, 10500}

\* the menu entries 0.5, 1, 2, 5 sec as int(sec * 1000)
MenuIntervals == {500, 1000, 2000, 5000}

ThemeModes == {"auto", "dark", "light"}

\* what process_iter may yield during a tick of the loop
TickPopulations ==
    {Population(3, 1, 1, 2, "vanished"), Population(3, 1, 1, 2, "denied_cpu")}

\* once a new tick begins, what a widget shows is not of the current tick
Aged(p) == "stale"

\* load_settings and the constructor up to the call of _update_all (line 162)
SchedInit ==
    /\ pc = "cpu"
    /\ after_queue = <<>>
    /\ update_interval \in StartupIntervals
    /\ font_size = DefaultFontSize
    /\ theme_mode = "auto"
    /\ status = "empty"
    /\ tick_error = FALSE
    /\ total_bar = "stale"
    /\ core_bars = "stale"
    /\ mem_panel = "stale"
    /\ tree_age = "stale"
    /\ top_labels = "stale"
    /\ cpu_baseline = "import"
    /\ total_window = "none"
    /\ total_reads = 0

ProcsIdle ==
    /\ procs = <<>>
    /\ rows = <<>>
    /\ tree = <<>>
    /\ raised = FALSE
    /\ procs_done = FALSE

\* the main loop runs the due after-callback: a tick begins
TimerFire ==
    /\ pc = "idle"
    /\ after_queue # <<>>
    /\ after_queue' = Tail(after_queue)
    /\ pc' = "cpu"
    /\ tick_error' = FALSE
    /\ total_reads' = 0
    /\ total_bar' = Aged(total_bar)
    /\ core_bars' = Aged(core_bars)
    /\ mem_panel' = Aged(mem_panel)
    /\ tree_age' = Aged(tree_age)
    /\ top_labels' = Aged(top_labels)
    /\ UNCHANGED <<update_interval, font_size, theme_mode, status, cpu_baseline,
                   total_window, proc_vars, cmd_vars, bytes_vars>>

\* the period the total-CPU value covers, given who reset the baseline last
WindowOf(baseline) ==
    IF baseline = "import" THEN "since_import"
    ELSE IF baseline = "update_cpu" THEN "since_total_read"
    ELSE "since_status_read"

\* _update_cpu: total first, then per core
UpdateCpu ==
    /\ pc = "cpu"
    /\ \E out \in {"ok", "total_raises", "percpu_raises"} :
        IF out = "total_raises"
        THEN /\ pc' = "except"
             /\ UNCHANGED <<total_bar, core_bars, cpu_baseline, total_window,
                            total_reads>>
        ELSE /\ total_window' = WindowOf(cpu_baseline)
             /\ cpu_baseline' = "update_cpu"
             /\ total_reads' = total_reads + 1
             /\ total_bar' = "cur"
             /\ core_bars' = IF out = "ok" THEN "cur" ELSE core_bars
             /\ pc' = IF out = "ok" THEN "mem" ELSE "except"
    /\ UNCHANGED <<after_queue, update_interval, font_size, theme_mode, status,
                   tick_error, mem_panel, tree_age, top_labels, proc_vars, cmd_vars, bytes_vars>>

\* _update_mem_swap_disk: the three queries, then labels and bars
UpdateMemSwapDisk ==
    /\ pc = "mem"
    /\ \E ok \in BOOLEAN :
        /\ mem_panel' = IF ok THEN "cur" ELSE mem_panel
        /\ pc' = IF ok THEN "procs" ELSE "except"
    /\ UNCHANGED <<after_queue, update_interval, font_size, theme_mode, status,
                   tick_error, total_bar, core_bars, tree_age, top_labels,
                   cpu_baseline, total_window, total_reads, proc_vars, cmd_vars, bytes_vars>>

\* _update_procs within a tick; the status line reads the total CPU again
UpdateProcs ==
    /\ pc = "procs"
    /\ \E ps \in TickPopulations :
        LET r == UpdateProcsResult(ps) IN
        /\ tree' = r.tree
        /\ tree_age' = IF r.raised THEN "emptied" ELSE "cur"
        /\ status' = IF r.raised THEN status ELSE "procs"
        /\ cpu_baseline' = IF r.raised THEN cpu_baseline ELSE "status"
        /\ total_reads' = IF r.raised THEN total_reads ELSE total_reads + 1
        /\ pc' = IF r.raised THEN "except" ELSE "top"
    /\ UNCHANGED <<after_queue, update_interval, font_size, theme_mode, tick_error,
                   total_bar, core_bars, mem_panel, top_labels, total_window,
                   procs, rows, raised, procs_done, cmd_vars, bytes_vars>>

\* _update_top_info: host queries, then the labels
UpdateTopInfo ==
    /\ pc = "top"
    /\ \E ok \in BOOLEAN :
        /\ top_labels' = IF ok THEN "cur" ELSE top_labels
        /\ pc' = IF ok THEN "after" ELSE "except"
    /\ UNCHANGED <<after_queue, update_interval, font_size, theme_mode, status,
                   tick_error, total_bar, core_bars, mem_panel, tree_age,
                   cpu_baseline, total_window, total_reads, proc_vars, cmd_vars, bytes_vars>>

\* a bug: the handler lets the exception leave the callback
ReportErrorAndStop ==
    /\ pc = "except"
    /\ tick_error' = TRUE
    /\ pc' = "idle"
    /\ UNCHANGED <<after_queue, update_interval, font_size, theme_mode, status,
                   total_bar, core_bars, mem_panel, tree_age, top_labels,
                   cpu_baseline, total_window, total_reads, proc_vars, cmd_vars, bytes_vars>>

\* a bug: the handler schedules the next tick and falls through to line 415
ReportErrorAndSchedule ==
    /\ pc = "except"
    /\ tick_error' = TRUE
    /\ after_queue' = Append(after_queue, update_interval)
    /\ pc' = "after"
    /\ UNCHANGED <<update_interval, font_size, theme_mode, status,
                   total_bar, core_bars, mem_panel, tree_age, top_labels,
                   cpu_baseline, total_window, total_reads, proc_vars, cmd_vars, bytes_vars>>

\* except Exception as e: print("Update error:", e, file=sys.stderr)
ReportError ==
    /\ pc = "except"
    /\ tick_error' = TRUE
    /\ pc' = "after"
    /\ UNCHANGED <<after_queue, update_interval, font_size, theme_mode, status,
                   total_bar, core_bars, mem_panel, tree_age, top_labels,
                   cpu_baseline, total_window, total_reads, proc_vars, cmd_vars, bytes_vars>>

\* a bug: the period is fixed when the loop is written, not read when scheduling
ScheduleDefault ==
    /\ pc = "after"
    /\ after_queue' = Append(after_queue, DefaultInterval)
    /\ pc' = "idle"
    /\ UNCHANGED <<update_interval, font_size, theme_mode, status, tick_error,
                   total_bar, core_bars, mem_panel, tree_age, top_labels,
                   cpu_baseline, total_window, total_reads, proc_vars, cmd_vars, bytes_vars>>

\* self.after(self.update_interval, self._update_all), and the callback returns
ScheduleNext ==
    /\ pc = "after"
    /\ after_queue' = Append(after_queue, update_interval)
    /\ pc' = "idle"
    /\ UNCHANGED <<update_interval, font_size, theme_mode, status, tick_error,
                   total_bar, core_bars, mem_panel, tree_age, top_labels,
                   cpu_baseline, total_window, total_reads, proc_vars, cmd_vars, bytes_vars>>

Tick ==
    \/ TimerFire
    \/ UpdateCpu
    \/ UpdateMemSwapDisk
    \/ UpdateProcs
    \/ UpdateTopInfo
    \/ ReportError
    \/ ScheduleNext

\* what a menu or key handler leaves alone
HandlerFrame ==
    UNCHANGED <<pc, after_queue, tick_error, total_bar, core_bars, mem_panel,
                tree_age, top_labels, cpu_baseline, total_window, total_reads,
                proc_vars, cmd_vars, bytes_vars>>

SetInterval(ms) ==
    /\ pc = "idle"
    /\ update_interval' = ms
    /\ status' = "interval"
    /\ HandlerFrame
    /\ UNCHANGED <<font_size, theme_mode>>

IncreaseInterval ==
    /\ pc = "idle"
    /\ update_interval' = Min(update_interval + IntervalStep, MaxInterval)
    /\ status' = "interval"
    /\ HandlerFrame
    /\ UNCHANGED <<font_size, theme_mode>>

DecreaseInterval ==
    /\ pc = "idle"
    /\ update_interval' = Max(update_interval - IntervalStep, MinInterval)
    /\ status' = "interval"
    /\ HandlerFrame
    /\ UNCHANGED <<font_size, theme_mode>>

SetTheme(mode) ==
    /\ pc = "idle"
    /\ theme_mode' = mode
    /\ status' = "theme"
    /\ HandlerFrame
    /\ UNCHANGED <<update_interval, font_size>>

ZoomIn ==
    /\ pc = "idle"
    /\ font_size < MaxFont
    /\ font_size' = font_size + 1
    /\ HandlerFrame
    /\ UNCHANGED <<update_interval, theme_mode, status>>

ZoomOut ==
    /\ pc = "idle"
    /\ font_size' = IF font_size > MinFontSize THEN font_size - 1 ELSE font_size
    /\ HandlerFrame
    /\ UNCHANGED <<update_interval, theme_mode, status>>

ZoomReset ==
    /\ pc = "idle"
    /\ font_size' = DefaultFontSize
    /\ HandlerFrame
    /\ UNCHANGED <<update_interval, theme_mode, status>>

SaveSettingsNow ==
    /\ pc = "idle"
    /\ status' = "saved"
    /\ HandlerFrame
    /\ UNCHANGED <<update_interval, font_size, theme_mode>>

Handler ==
    \/ \E ms \in MenuIntervals : SetInterval(ms)
    \/ IncreaseInterval
    \/ DecreaseInterval
    \/ \E mode \in ThemeModes : SetTheme(mode)
    \/ ZoomIn
    \/ ZoomOut
    \/ ZoomReset
    \/ SaveSettingsNow

CmdIdle == cmd_in = <<>> /\ cmd_out = <<>> /\ cmd_done = FALSE

BytesIdle == bytes_in = <<>> /\ bytes_out = <<>> /\ bytes_done = FALSE

\* the loop not started: the state in which a helper is looked at on its own
SchedIdle ==
    /\ SchedInit
    /\ update_interval = DefaultInterval

Init == SchedInit /\ ProcsIdle /\ CmdIdle /\ BytesIdle

Next == Tick \/ Handler

Spec == Init /\ [][Next]_vars

\* the main loop runs a due timer callback, and a running callback runs on
\* the update loop with the period set from the Update Interval menu
NextLoop == Tick \/ \E ms \in MenuIntervals : SetInterval(ms)

LoopSpec == Init /\ [][NextLoop]_vars /\ WF_vars(Tick)

(***************************************************************************)
(* The helpers on their own: _update_procs on every population, the        *)
(* command string of every input, bytes2human on every byte count.         *)
(***************************************************************************)
ProcsSpecInit == SchedIdle /\ ProcsInit /\ CmdIdle /\ BytesIdle

ProcsNext == RunUpdateProcs /\ UNCHANGED <<sched_vars, cmd_vars, bytes_vars>>

ProcsSpec == ProcsSpecInit /\ [][ProcsNext]_vars

CmdSpecInit == SchedIdle /\ ProcsIdle /\ CmdInit /\ BytesIdle

CmdNext == BuildCmd /\ UNCHANGED <<sched_vars, proc_vars, bytes_vars>>

CmdSpec == CmdSpecInit /\ [][CmdNext]_vars

BytesSpecInit == SchedIdle /\ ProcsIdle /\ CmdIdle /\ BytesInit

BytesNext == RunBytes2Human /\ UNCHANGED <<sched_vars, proc_vars, cmd_vars>>

BytesSpec == BytesSpecInit /\ [][BytesNext]_vars

(***************************************************************************)
(* Properties of the update loop.                                          *)
(***************************************************************************)
InRange(ms) == MinInterval <= ms /\ ms <= MaxInterval

\* C1: a failing tick reports its error and still schedules the next tick, and
\* ticks begin again and again whatever mixture of failing and succeeding ticks
\* occurs (the main loop running its due callbacks).
C1_LoopNeverStops ==
    /\ []<>(pc = "cpu")
    /\ (pc = "except") ~> (pc = "idle" /\ tick_error /\ Len(after_queue) = 1)

\* a failed tick has been reported and the next tick is pending
C1_Witness == pc = "idle" /\ tick_error /\ Len(after_queue) = 1 /\ status = "procs"

\* C4: at most one next-tick timer is pending, and none while a tick executes,
\* so no tick begins before the previous one has published or reported its
\* error, whatever handlers run in between.
C4_TicksSequential ==
    /\ Len(after_queue) <= 1
    /\ pc # "idle" => after_queue = <<>>
    /\ pc = "idle" => Len(after_queue) = 1

\* interval, theme, zoom and save handlers have run and one timer is pending
C4_Witness ==
    /\ pc = "idle" /\ Len(after_queue) = 1 /\ status = "saved"
    /\ update_interval = 5500 /\ theme_mode = "light" /\ font_size = MinFontSize
    /\ tick_error

\* C5: the period is read when the next tick is scheduled: the timer armed at
\* the end of a tick carries the update_interval of that moment; the interval
\* changes only between ticks, and a change leaves the running loop, what is
\* displayed and the timer already pending as they are.
C5_IntervalOnNextSchedule ==
    /\ [][(pc = "after" /\ pc' = "idle")
            => after_queue' = Append(after_queue, update_interval)]_vars
    /\ [][update_interval' # update_interval
            => /\ pc = "idle" /\ pc' = "idle"
               /\ after_queue' = after_queue
               /\ <<tick_error, total_bar, core_bars, mem_panel, tree_age,
                    top_labels, tree>>' =
                  <<tick_error, total_bar, core_bars, mem_panel, tree_age,
                    top_labels, tree>>]_vars
    /\ [][(after_queue' # after_queue /\ after_queue' # <<>>)
            => after_queue' = <<update_interval>>]_vars

\* the interval was changed to 2 s while a 1 s timer was pending, that timer has
\* fired, and the tick after it is scheduled with 2 s
C5_Witness ==
    /\ pc = "idle" /\ after_queue = <<2000>> /\ update_interval = 2000
    /\ status = "procs"

\* C6 as claimed: every period used to schedule a tick lies in [250, 10000].
C6_PeriodInRange == \A i \in 1..Len(after_queue) : InRange(after_queue[i])

\* C9 as claimed: one caller reads the total-CPU baseline, once per tick, so the
\* total drawn covers the period since the previous total reading.
C9_SingleTotalReader ==
    /\ total_reads <= 1
    /\ total_bar = "cur" => total_window # "since_status_read"

\* C10 as claimed: after a failed tick nothing on display is of that tick and
\* the process table has not been emptied by it.
C10_AllOrNothing ==
    (pc = "idle" /\ tick_error) =>
        /\ total_bar # "cur" /\ core_bars # "cur" /\ mem_panel # "cur"
        /\ tree_age # "cur" /\ tree_age # "emptied" /\ top_labels # "cur"

(***************************************************************************)
(* Properties of the process snapshot.                                     *)
(***************************************************************************)
\* a process that vanished or some attribute of which was denied
Troubled(p) ==
    \/ p.name_raises
    \/ p.cpu_percent = <<>> \/ p.memory_percent = <<>> \/ p.memory_info = <<>>

RowPids(rs) == {rs[i].pid : i \in 1..Len(rs)}

\* the measured CPU value (hundredths) of the process a row shows
Measured(r) == procs[r.pid].cpu_percent[1]

\* C2 as claimed: vanished and denied processes, those with a None attribute
\* included, are skipped: _update_procs does not raise, and the rows are
\* exactly those of the untroubled processes.
C2_TroubledSkipped ==
    procs_done =>
        /\ ~raised
        /\ RowPids(rows) = {k \in 1..Len(procs) : ~Troubled(procs[k])}

FullCmd == JoinArgs(CmdArgs(cmd_in))

\* C7: a command longer than 100 characters is shown as its first 97
\* characters followed by "...", 100 characters in all; a command of at most
\* 100 characters is shown unchanged.
C7_Truncation ==
    cmd_done =>
        /\ Len(FullCmd) > CmdLimit =>
            /\ Len(cmd_out) = CmdLimit
            /\ SubSeq(cmd_out, 1, CmdKeep) = SubSeq(FullCmd, 1, CmdKeep)
            /\ SubSeq(cmd_out, CmdKeep + 1, CmdLimit) = <<".", ".", ".">>
        /\ Len(FullCmd) <= CmdLimit => cmd_out = FullCmd
        /\ Len(cmd_out) <= CmdLimit

\* a command of 150 characters in two arguments has been cut to 100
C7_Witness ==
    /\ cmd_done /\ Len(cmd_in.cmdline) = 2 /\ Len(FullCmd) = 150
    /\ Len(cmd_out) = 100 /\ cmd_out[100] = "." /\ cmd_out[97] # "."

(***************************************************************************)
(* Properties of bytes2human.                                              *)
(***************************************************************************)
AllUnits == Units \o <<"P">>

\* the digits of the count above 1024^k, as a number
Above(n, k) == IF Len(n) > k THEN IntVal(SubSeq(n, k + 1, Len(n))) ELSE 0

\* C8: the suffix is the first unit k of B, K, M, G, T with n < 1024^(k+1),
\* that is, with at most k+1 base-1024 digits, and P from 1024^5 on; the number
\* has one decimal digit and is n / 1024^k rounded; 0 gives "0.0B" and
\* 4,000,000,000 gives "3.7G".
C8_UnitAndFormat ==
    bytes_done =>
        LET k == Min(Len(bytes_in), Len(AllUnits)) - 1 IN
        /\ bytes_out.unit = AllUnits[k + 1]
        /\ \A j \in 0..(Len(Units) - 1) :
            bytes_out.unit = AllUnits[j + 1] => (Len(bytes_in) <= j + 1 /\ Len(bytes_in) > j)
        /\ bytes_out.tenth \in 0..9
        /\ 10 * bytes_out.whole + bytes_out.tenth
                \in {10 * Above(bytes_in, k) + t : t \in 0..10}
        /\ bytes_out.unit # "P" => bytes_out.whole <= Kilo
        /\ bytes_in = <<0>> => bytes_out = [whole |-> 0, tenth |-> 0, unit |-> "B"]
        /\ bytes_in = <<0, 1>> => bytes_out = [whole |-> 1, tenth |-> 0, unit |-> "K"]
        /\ bytes_in = FourBillion => bytes_out = [whole |-> 3, tenth |-> 7, unit |-> "G"]
        /\ bytes_in = ThreeExbi => bytes_out = [whole |-> 3072, tenth |-> 0, unit |-> "P"]

\* 4,000,000,000 has been formatted
C8_Witness ==
    bytes_done /\ bytes_in = FourBillion /\ bytes_out.unit = "G" /\ bytes_out.whole = 3

====
